---- MODULE Spec2Model ----
(***************************************************************************)
(* Model of src/github_service.py: create_repo_and_push and                *)
(* enable_github_pages.  An invocation is a coroutine run by a cooperative *)
(* event loop; the hosting provider (repository namespace, branch          *)
(* contents, HTTP statuses), the process environment and the local         *)
(* filesystem / version-control library are the environment, whose         *)
(* outcomes are chosen nondeterministically in the step that observes      *)
(* them.                                                                   *)
(***************************************************************************)
EXTENDS Integers, Sequences, FiniteSets, TLC

\* ------------------------------------------------------------------ bounds
MaxFiles == 2       \* longest input file list of the single-invocation runs
NumInv == 2         \* number of invocations scheduled on the one event loop

Inv == 1..NumInv

\* ------------------------------------------------------------------ inputs
Unset == "<unset>"                      \* os.getenv(...) returned None
TokenValues == {Unset, "", "ghp"}
UserValues == {Unset, "", "acme"}

Tasks == {"demo", "app"}
Paths == {"index.html", "css/site.css"}
Contents == {"<h1>hi</h1>", "body{}"}
Entries == [path : Paths, content : Contents]

FileListsOfLen(n) == [1..n -> Entries]
FileLists == UNION {FileListsOfLen(n) : n \in 0..MaxFiles}
ConcFileLists == {<<[path |-> "index.html", content |-> "<h1>hi</h1>"]>>}

NoCall == [task |-> "", files |-> <<>>, called |-> FALSE]

\* statuses the repository-creation endpoint answers with: a name that is
\* free is created (200/201) or the request is refused (403); a name that
\* exists is rejected (422) or the request is refused (403)
CreatedStatuses == {200, 201}
RefusedStatuses == {403}
CollisionStatuses == {422}
\* statuses the pages endpoint answers with
PagesStatuses == {201, 204, 404, 409}

\* ----------------------------------------------------- pure functions
\* `if not github_token` / `if not github_user`: None and "" are both falsy
FalsyNoneOnly(v) == v = Unset
Falsy(v) == v \in {Unset, ""}

\* which configuration error create_repo_and_push raises, "" for none
ConfigError(e) ==
    IF Falsy(e.token) THEN "ValueError: GITHUB_TOKEN environment variable not set"
    ELSE IF Falsy(e.user) THEN "ValueError: GITHUB_USER environment variable not set"
    ELSE ""

\* hashlib.md5(task.encode()).hexdigest()[:8], tabulated for the tasks used
ShortHash(task) ==
    CASE task = "demo" -> "fe01ce2a"
      [] task = "app" -> "d2a57dc1"
      [] OTHER -> "d41d8cd9"

\* repo_name = f"{task}-{short_hash}"
RepoName(task) == task \o "-" \o ShortHash(task)

RepoNames == {RepoName(t) : t \in Tasks}

\* repo_data["html_url"] of the provider's answer for a created repository
HtmlUrl(owner, name) == "https://github.com/" \o owner \o "/" \o name

\* pages_url = f"https://{github_user}.github.io/{repo_name}/"
PagesUrl(user, name) == "https://" \o user \o ".github.io/" \o name \o "/"

\* response.status_code in (200, 201)
CreateOkAlways(status) == TRUE
CreateOk(status) == status \in {200, 201}

\* response.status_code in (201, 204) in enable_github_pages
PagesOk(status) == status \in {201, 204}

\* where create_repo_and_push goes after the creation response: on to the
\* local step, or out with RuntimeError; the request is not repeated
PcAfterCreateRetry(status) == IF CreateOk(status) THEN "mktemp" ELSE "create"
PcAfterCreate(status) == IF CreateOk(status) THEN "mktemp" ELSE "failed"

\* the working tree / index as a set of <<path, content>> entries: open(path,
\* "w") truncates, so writing a path replaces what was there
WriteEntry(tree, f) == {e \in tree : e[1] # f.path} \cup {<<f.path, f.content>>}

\* repo.index.commit("Initial commit") writes the index tree and creates the
\* commit object; it raises only when the library call itself fails (there is
\* no nothing-to-commit check for an empty index)
CommitRaisesOnEmpty(index, lib) == lib = "raise" \/ index = {}
CommitRaises(index, lib) == lib = "raise"

\* repo.head.commit.hexsha: content hash of the commit object
HexSha(tree) == <<"sha1", "Initial commit", tree>>

\* tempfile.TemporaryDirectory().__exit__: does the directory exist after the
\* with block is left, normally (raised = FALSE) or by an exception
TmpAfterExitLeak(raised) == raised
TmpAfterExit(raised) == FALSE

\* the provider's repositories after an invocation failed past creation: the
\* code sends no compensating request
ReposAfterFailureRollback(rs, name) == rs \ {name}
ReposAfterFailure(rs, name) == rs

NoBranch == {<<"<no branch>", "">>}

VARIABLES
    env,          \* process environment: [token, user]
    args,         \* args[i]: [task, files, called] of invocation i
    pc,           \* pc[i]: position of invocation i
    loop,         \* invocation running on the event loop, 0 when idle
    repoName,     \* repoName[i]: repo_name, "" before it is computed
    repoUrl,      \* repoUrl[i]: repo_url, "" before it is known
    createStatus, \* createStatus[i]: status of the creation response, 0 = none
    repos,        \* provider: names of the account's repositories
    remoteMain,   \* provider: remoteMain[n]: tree of refs/heads/main of n
    pagesOn,      \* provider: names with static hosting enabled
    tmp,          \* tmp[i]: the temporary directory exists
    work,         \* work[i]: files of the temporary working tree
    index,        \* index[i]: staged entries
    head,         \* head[i]: tree of the local HEAD commit, NoBranch if none
    fi,           \* fi[i]: index of the next file_info of the for loop
    pushOutcome,  \* pushOutcome[i]: "none", "ok", "rejected", "raise"
    pagesStatus,  \* pagesStatus[i]: status of the pages response, 0 = none
    commitSha,    \* commitSha[i]: commit_sha, <<>> before it is read
    calls,        \* calls[i]: [create, push, pages, mkdtemp] counts
    envRaised,    \* envRaised[i]: a library or transport call of i raised
    result        \* result[i]: <<"none">>, <<"ok", triple>>, <<"error", e>>

vars == <<env, args, pc, loop, repoName, repoUrl, createStatus, repos,
          remoteMain, pagesOn, tmp, work, index, head, fi, pushOutcome,
          pagesStatus, commitSha, calls, envRaised, result>>

provider == <<repos, remoteMain, pagesOn>>
localfs == <<tmp, work, index, head, fi>>

NoCalls == [create |-> 0, push |-> 0, pages |-> 0, mkdtemp |-> 0]

InitCommon ==
    /\ env \in [token : TokenValues, user : UserValues]
    /\ pc = [i \in Inv |-> IF args[i].called THEN "pending" ELSE "idle"]
    /\ loop = 0
    /\ repoName = [i \in Inv |-> ""]
    /\ repoUrl = [i \in Inv |-> ""]
    /\ createStatus = [i \in Inv |-> 0]
    /\ repos = {}
    /\ remoteMain = [n \in RepoNames |-> NoBranch]
    /\ pagesOn = {}
    /\ tmp = [i \in Inv |-> FALSE]
    /\ work = [i \in Inv |-> {}]
    /\ index = [i \in Inv |-> {}]
    /\ head = [i \in Inv |-> NoBranch]
    /\ fi = [i \in Inv |-> 1]
    /\ pushOutcome = [i \in Inv |-> "none"]
    /\ pagesStatus = [i \in Inv |-> 0]
    /\ commitSha = [i \in Inv |-> <<>>]
    /\ calls = [i \in Inv |-> NoCalls]
    /\ envRaised = [i \in Inv |-> FALSE]
    /\ result = [i \in Inv |-> <<"none">>]

\* one invocation, any task and any file list up to MaxFiles entries
Init ==
    /\ \E t \in Tasks, fl \in FileLists :
         args = [i \in Inv |-> IF i = 1
                               THEN [task |-> t, files |-> fl, called |-> TRUE]
                               ELSE NoCall]
    /\ InitCommon

\* NumInv invocations handed to the event loop together
InitConc ==
    /\ args \in [Inv -> [task : Tasks, files : ConcFileLists, called : {TRUE}]]
    /\ InitCommon

\* ----------------------------------------------------------- helpers
\* an exception leaves create_repo_and_push: the coroutine ends and the event
\* loop is free again
Raise(i, e, byEnv) ==
    /\ envRaised' = [envRaised EXCEPT ![i] = byEnv]
    /\ pc' = [pc EXCEPT ![i] = "failed"]
    /\ result' = [result EXCEPT ![i] = <<"error", e>>]
    /\ loop' = 0

\* the with block of the temporary directory is left
LeaveWith(i, raised) ==
    /\ tmp' = [tmp EXCEPT ![i] = TmpAfterExit(raised)]
    /\ work' = [work EXCEPT ![i] = IF TmpAfterExit(raised) THEN @ ELSE {}]
    /\ index' = [index EXCEPT ![i] = IF TmpAfterExit(raised) THEN @ ELSE {}]
    /\ head' = [head EXCEPT ![i] = IF TmpAfterExit(raised) THEN @ ELSE NoBranch]

Count(i, what) == calls' = [calls EXCEPT ![i][what] = @ + 1]

\* ----------------------------------------------------------- actions
\* the event loop starts a pending coroutine; it runs only when no other
\* coroutine is running, and the body has no await that would hand the loop
\* back before it returns or raises
Start(i) ==
    /\ loop = 0
    /\ pc[i] = "pending"
    /\ loop' = i
    /\ pc' = [pc EXCEPT ![i] = "config"]
    /\ UNCHANGED <<env, args, repoName, repoUrl, createStatus, provider, localfs,
                   pushOutcome, pagesStatus, commitSha, calls, envRaised, result>>

\* read GITHUB_TOKEN and GITHUB_USER, raise ValueError when one is missing
CheckConfig(i) ==
    /\ loop = i
    /\ pc[i] = "config"
    /\ IF ConfigError(env) # ""
       THEN Raise(i, ConfigError(env), FALSE)
       ELSE /\ pc' = [pc EXCEPT ![i] = "create"]
            /\ UNCHANGED <<result, loop, envRaised>>
    /\ UNCHANGED <<env, args, repoName, repoUrl, createStatus, provider, localfs,
                   pushOutcome, pagesStatus, commitSha, calls>>

\* derive repo_name and send POST /user/repos
PostCreateRepo(i) ==
    /\ loop = i
    /\ pc[i] = "create"
    /\ repoName' = [repoName EXCEPT ![i] = RepoName(args[i].task)]
    /\ Count(i, "create")
    /\ pc' = [pc EXCEPT ![i] = "createWait"]
    /\ UNCHANGED <<env, args, loop, repoUrl, createStatus, provider, localfs,
                   pushOutcome, pagesStatus, commitSha, envRaised, result>>

\* requests.post raised (connection error, timeout at the transport level);
\* the provider may or may not have created the repository
CreateRepoTransportError(i) ==
    /\ loop = i
    /\ pc[i] = "createWait"
    /\ \E created \in BOOLEAN :
         repos' = IF created THEN repos \cup {repoName[i]} ELSE repos
    /\ Raise(i, "ConnectionError", TRUE)
    /\ UNCHANGED <<env, args, repoName, repoUrl, createStatus, remoteMain,
                   pagesOn, localfs, pushOutcome, pagesStatus, commitSha, calls>>

\* the creation response arrives: a free name is created or refused, a taken
\* name is rejected; the code checks the status and reads html_url
CreateRepoResponse(i) ==
    /\ loop = i
    /\ pc[i] = "createWait"
    /\ \E status \in
           IF repoName[i] \in repos
           THEN CollisionStatuses \cup RefusedStatuses
           ELSE CreatedStatuses \cup RefusedStatuses :
         /\ createStatus' = [createStatus EXCEPT ![i] = status]
         /\ repos' = IF status \in CreatedStatuses
                     THEN repos \cup {repoName[i]} ELSE repos
         /\ IF PcAfterCreate(status) = "failed"
            THEN /\ Raise(i, "RuntimeError: Failed to create repo", FALSE)
                 /\ UNCHANGED repoUrl
            ELSE /\ pc' = [pc EXCEPT ![i] = PcAfterCreate(status)]
                 /\ repoUrl' = [repoUrl EXCEPT ![i] = HtmlUrl(env.user, repoName[i])]
                 /\ UNCHANGED <<result, loop, envRaised>>
    /\ UNCHANGED <<env, args, repoName, remoteMain, pagesOn, localfs,
                   pushOutcome, pagesStatus, commitSha, calls>>

\* tempfile.TemporaryDirectory() and Repo.init(tmpdir); creating the directory
\* can fail, and then there is no directory
MakeTmpDir(i) ==
    /\ loop = i
    /\ pc[i] = "mktemp"
    /\ \E lib \in {"ok", "raise"} :
         IF lib = "raise"
         THEN /\ Raise(i, "OSError", TRUE)
              /\ repos' = ReposAfterFailure(repos, repoName[i])
              /\ UNCHANGED <<tmp, calls>>
         ELSE /\ tmp' = [tmp EXCEPT ![i] = TRUE]
              /\ Count(i, "mkdtemp")
              /\ pc' = [pc EXCEPT ![i] = "write"]
              /\ repos' = repos
              /\ UNCHANGED <<result, loop, envRaised>>
    /\ work' = [work EXCEPT ![i] = {}]
    /\ index' = [index EXCEPT ![i] = {}]
    /\ head' = [head EXCEPT ![i] = NoBranch]
    /\ fi' = [fi EXCEPT ![i] = 1]
    /\ UNCHANGED <<env, args, repoName, repoUrl, createStatus, remoteMain,
                   pagesOn, pushOutcome, pagesStatus, commitSha>>

\* one pass of the for loop: makedirs, write the content, index.add; any of
\* them can raise, which leaves the with block
WriteFile(i) ==
    /\ loop = i
    /\ pc[i] = "write"
    /\ fi[i] <= Len(args[i].files)
    /\ \E lib \in {"ok", "raise"} :
         IF lib = "raise"
         THEN /\ Raise(i, "OSError", TRUE)
              /\ LeaveWith(i, TRUE)
              /\ repos' = ReposAfterFailure(repos, repoName[i])
              /\ UNCHANGED fi
         ELSE /\ work' = [work EXCEPT ![i] = WriteEntry(@, args[i].files[fi[i]])]
              /\ index' = [index EXCEPT ![i] = WriteEntry(@, args[i].files[fi[i]])]
              /\ fi' = [fi EXCEPT ![i] = @ + 1]
              /\ UNCHANGED <<pc, result, loop, envRaised, tmp, head, repos>>
    /\ UNCHANGED <<env, args, repoName, repoUrl, createStatus, remoteMain,
                   pagesOn, pushOutcome, pagesStatus, commitSha, calls>>

\* repo.index.commit("Initial commit") once the for loop is over
Commit(i) ==
    /\ loop = i
    /\ pc[i] = "write"
    /\ fi[i] > Len(args[i].files)
    /\ \E lib \in {"ok", "raise"} :
         IF CommitRaises(index[i], lib)
         THEN /\ Raise(i, "GitError: commit", lib = "raise")
              /\ LeaveWith(i, TRUE)
              /\ repos' = ReposAfterFailure(repos, repoName[i])
         ELSE /\ head' = [head EXCEPT ![i] = index[i]]
              /\ pc' = [pc EXCEPT ![i] = "push"]
              /\ UNCHANGED <<result, loop, envRaised, tmp, work, index, repos>>
    /\ UNCHANGED <<env, args, repoName, repoUrl, createStatus, remoteMain,
                   pagesOn, fi, pushOutcome, pagesStatus, commitSha, calls>>

\* repo.create_remote("origin", clone_url) and the start of origin.push
PushRequest(i) ==
    /\ loop = i
    /\ pc[i] = "push"
    /\ Count(i, "push")
    /\ pc' = [pc EXCEPT ![i] = "pushWait"]
    /\ UNCHANGED <<env, args, loop, repoName, repoUrl, createStatus, provider,
                   localfs, pushOutcome, pagesStatus, commitSha, envRaised, result>>

\* origin.push ends.  "ok": the remote took HEAD as refs/heads/main.
\* "raise": the push command failed without reporting any ref
\* (authentication, network), the library raises.  "rejected": the remote
\* declined the ref; the library reports it in the returned PushInfo flags
\* and does not raise, and the code drops the returned value.  Then
\* commit_sha is read and the with block is left.
PushResponse(i) ==
    /\ loop = i
    /\ pc[i] = "pushWait"
    /\ \E out \in {"ok", "rejected", "raise"} :
         /\ pushOutcome' = [pushOutcome EXCEPT ![i] = out]
         /\ IF out = "raise"
            THEN /\ Raise(i, "GitCommandError: push", TRUE)
                 /\ LeaveWith(i, TRUE)
                 /\ repos' = ReposAfterFailure(repos, repoName[i])
                 /\ UNCHANGED <<remoteMain, commitSha>>
            ELSE /\ remoteMain' = IF out = "ok"
                                  THEN [remoteMain EXCEPT ![repoName[i]] = head[i]]
                                  ELSE remoteMain
                 /\ commitSha' = [commitSha EXCEPT ![i] = HexSha(head[i])]
                 /\ LeaveWith(i, FALSE)
                 /\ pc' = [pc EXCEPT ![i] = "pages"]
                 /\ UNCHANGED <<result, loop, envRaised, repos>>
    /\ UNCHANGED <<env, args, repoName, repoUrl, createStatus, pagesOn, fi,
                   pagesStatus, calls>>

\* enable_github_pages sends POST /repos/{user}/{repo_name}/pages
PostPages(i) ==
    /\ loop = i
    /\ pc[i] = "pages"
    /\ Count(i, "pages")
    /\ pc' = [pc EXCEPT ![i] = "pagesWait"]
    /\ UNCHANGED <<env, args, loop, repoName, repoUrl, createStatus, provider,
                   localfs, pushOutcome, pagesStatus, commitSha, envRaised, result>>

\* requests.post raised inside enable_github_pages; nothing catches it
PagesTransportError(i) ==
    /\ loop = i
    /\ pc[i] = "pagesWait"
    /\ Raise(i, "ConnectionError", TRUE)
    /\ repos' = ReposAfterFailure(repos, repoName[i])
    /\ UNCHANGED <<env, args, repoName, repoUrl, createStatus, remoteMain,
                   pagesOn, localfs, pushOutcome, pagesStatus, commitSha, calls>>

\* the pages response arrives; either status only writes a log record, then
\* pages_url is computed and the triple returned
PagesResponse(i) ==
    /\ loop = i
    /\ pc[i] = "pagesWait"
    /\ \E status \in PagesStatuses :
         /\ pagesStatus' = [pagesStatus EXCEPT ![i] = status]
         /\ pagesOn' = IF PagesOk(status) THEN pagesOn \cup {repoName[i]} ELSE pagesOn
    /\ repos' = ReposAfterFailure(repos, repoName[i])
    /\ result' = [result EXCEPT ![i] =
                    <<"ok", repoUrl[i], commitSha[i], PagesUrl(env.user, repoName[i])>>]
    /\ pc' = [pc EXCEPT ![i] = "done"]
    /\ loop' = 0
    /\ UNCHANGED <<env, args, repoName, repoUrl, createStatus, remoteMain,
                   localfs, pushOutcome, commitSha, calls, envRaised>>

\* a step of invocation i
Step(i) ==
        \/ Start(i)
        \/ CheckConfig(i)
        \/ PostCreateRepo(i)
        \/ CreateRepoTransportError(i)
        \/ CreateRepoResponse(i)
        \/ MakeTmpDir(i)
        \/ WriteFile(i)
        \/ Commit(i)
        \/ PushRequest(i)
        \/ PushResponse(i)
        \/ PostPages(i)
        \/ PagesTransportError(i)
        \/ PagesResponse(i)

Next == \E i \in Inv : Step(i)

Spec == Init /\ [][Next]_vars

SpecConc == InitConc /\ [][Next]_vars

\* ------------------------------------------------------------- claims
Ended(i) == pc[i] \in {"done", "failed"}
Called == {i \in Inv : args[i].called}
PassedCreation(i) == createStatus[i] \in {200, 201}

\* C1: when the access token or the account name is unset or empty, the
\* invocation ends in a configuration error, and at no point has it sent a
\* creation request, pushed, requested hosting activation or made a
\* temporary directory
C1_ConfigErrorBeforeAnyCall ==
    (env.token \in {Unset, ""} \/ env.user \in {Unset, ""}) =>
        \A i \in Called :
            /\ calls[i] = NoCalls
            /\ ~tmp[i]
            /\ repos = {}
            /\ pc[i] \in {"pending", "config", "failed"}
            /\ Ended(i) =>
                 result[i] \in
                   {<<"error", "ValueError: GITHUB_TOKEN environment variable not set">>,
                    <<"error", "ValueError: GITHUB_USER environment variable not set">>}

C1_Witness ==
    \E i \in Called :
        /\ env.token = "ghp"
        /\ env.user = ""
        /\ pc[i] = "failed"
        /\ result[i] = <<"error", "ValueError: GITHUB_USER environment variable not set">>

\* C2: a creation status other than 200/201 fails the operation with no
\* local step, no push and no hosting activation; a failed commit/push step
\* (the push raised or the remote rejected it) fails the operation with no
\* hosting activation; push only after creation succeeded, hosting
\* activation only after the push succeeded
C2_ShortCircuit ==
    \A i \in Called :
        /\ (createStatus[i] # 0 /\ ~PassedCreation(i)) =>
               /\ pc[i] = "failed"
               /\ result[i][1] = "error"
               /\ calls[i].mkdtemp = 0 /\ calls[i].push = 0 /\ calls[i].pages = 0
        /\ pushOutcome[i] \in {"raise", "rejected"} =>
               /\ pc[i] = "failed"
               /\ result[i][1] = "error"
               /\ calls[i].pages = 0
        /\ calls[i].push > 0 => PassedCreation(i)
        /\ calls[i].pages > 0 => pushOutcome[i] = "ok"

\* C3: once creation and the commit/push succeeded, the invocation ends with
\* the success triple whatever the hosting-activation call does, and the
\* site URL is https://<account>.github.io/<repository name>/
C3_PagesFailureTolerated ==
    \A i \in Called :
        (PassedCreation(i) /\ pushOutcome[i] = "ok" /\ Ended(i)) =>
            /\ pc[i] = "done"
            /\ result[i] = <<"ok", repoUrl[i], commitSha[i],
                             "https://" \o env.user \o ".github.io/"
                                 \o repoName[i] \o "/">>

\* C4 as stated: with an empty file list and a created repository there is no
\* push, no hosting activation and no success triple
C4_EmptyListFails ==
    \A i \in Called :
        (args[i].files = <<>> /\ PassedCreation(i)) =>
            /\ calls[i].push = 0
            /\ calls[i].pages = 0
            /\ result[i][1] # "ok"

\* C4 amended: with an empty file list and a created repository the commit
\* step does not fail for lack of content: unless a library or transport
\* call raises, the invocation does not fail, and it ends with the success
\* triple after one push of a commit with the empty tree and one hosting
\* activation request
C4_EmptyListCommitsEmptyTree ==
    \A i \in Called :
        (args[i].files = <<>> /\ PassedCreation(i) /\ ~envRaised[i]) =>
            /\ pc[i] # "failed"
            /\ pc[i] \in {"push", "pushWait"} => head[i] = {}
            /\ pc[i] = "done" =>
                 /\ result[i][1] = "ok"
                 /\ result[i][3] = <<"sha1", "Initial commit", {}>>
                 /\ calls[i].push = 1 /\ calls[i].pages = 1
                 /\ pushOutcome[i] = "ok" => remoteMain[repoName[i]] = {}

C4_Witness ==
    \E i \in Called :
        /\ args[i].files = <<>>
        /\ pc[i] = "done"
        /\ result[i][1] = "ok"
        /\ remoteMain[repoName[i]] = {}

\* C5: after a run that returned the success triple for a non-empty file
\* list, the <<path, content>> entries of the remote's main branch are
\* exactly the entries of the input list
C5_RemoteMatchesInput ==
    \A i \in Called :
        (Len(args[i].files) > 0 /\ result[i][1] = "ok") =>
            remoteMain[repoName[i]] =
                {<<args[i].files[k].path, args[i].files[k].content>> :
                     k \in 1..Len(args[i].files)}

\* C6: the temporary directory exists only inside the commit/push step: it
\* is gone when hosting activation is requested and when the invocation has
\* returned or failed, whichever way the step was left
C6_TmpDirRemoved ==
    \A i \in Called :
        /\ tmp[i] => pc[i] \in {"write", "push", "pushWait"}
        /\ pc[i] \in {"pages", "pagesWait", "done", "failed"} =>
               ~tmp[i] /\ work[i] = {}

C6_Witness ==
    \E i \in Called :
        /\ pc[i] = "failed"
        /\ calls[i].mkdtemp = 1
        /\ pushOutcome[i] = "raise"
        /\ ~tmp[i]

\* C7: invocations with the same task identifier ask for the same repository
\* name; at most one of them passes creation, and every other one that has
\* ended did send its creation request and failed there, with no temporary
\* directory, no push and no hosting activation
C7_SameTaskCollides ==
    \A i, j \in Called :
        (i # j /\ args[i].task = args[j].task) =>
            /\ (repoName[i] # "" /\ repoName[j] # "") => repoName[i] = repoName[j]
            /\ ~(PassedCreation(i) /\ PassedCreation(j))
            /\ (PassedCreation(j) /\ Ended(i)) =>
                 /\ result[i][1] = "error"
                 /\ calls[i].create = 1
                 /\ calls[i].mkdtemp = 0
                 /\ calls[i].push = 0
                 /\ calls[i].pages = 0

C7_Witness ==
    \E i, j \in Called :
        /\ i # j
        /\ args[i].task = args[j].task
        /\ createStatus[j] = 201
        /\ createStatus[i] = 422
        /\ pc[i] = "failed"
        /\ calls[i].create = 1

\* C8: while an invocation waits for the creation, push or hosting
\* activation call to complete, another invocation that has not ended can
\* take a step on the same event loop
C8_LoopNotBlocked ==
    \A i, j \in Called :
        (i # j /\ pc[i] \in {"createWait", "pushWait", "pagesWait"} /\ ~Ended(j)) =>
            ENABLED Step(j)

\* C9: a repository whose creation succeeded exists at the provider from then
\* on, also after a later step of the invocation failed, and no step removes
\* a repository from the provider's namespace
C9_NoRollback ==
    /\ [](\A i \in Called : PassedCreation(i) => repoName[i] \in repos)
    /\ [][repos \subseteq repos']_vars

C9_Witness ==
    \E i \in Called :
        /\ PassedCreation(i)
        /\ pc[i] = "failed"
        /\ pushOutcome[i] = "raise"
        /\ repoName[i] \in repos

\* C10: within one invocation the creation request, the push and the hosting
\* activation request are each issued at most once
C10_NoRetry ==
    \A i \in Called :
        /\ calls[i].create <= 1
        /\ calls[i].push <= 1
        /\ calls[i].pages <= 1

C10_Witness ==
    \E i \in Called :
        /\ createStatus[i] = 403
        /\ pc[i] = "failed"
        /\ calls[i].create = 1

====
